---- MODULE Spec2Model ----
(***************************************************************************)
(* State-machine model of discord_bot.py: the session registry and match   *)
(* poller, the announcement aggregator (debounced groups), the wager pools *)
(* with their ledger, and the pari-mutuel settlement.                      *)
(*                                                                         *)
(* The program runs on one asyncio event loop: a handler runs without      *)
(* interruption from one await that really suspends to the next.  Every    *)
(* action below is one such uninterrupted stretch.  "async with            *)
(* announcement_lock" never suspends (no holder ever awaits inside it), so *)
(* it does not split an action.                                            *)
(***************************************************************************)
EXTENDS Integers, Sequences, FiniteSets, TLC

\* ------------------------------------------------------------ bounds
MaxStarts == 2
WagerStarts == 1
MaxMatch == 2
MaxLedgerOps == 1
DebounceStarts == 3
MaxAdvance == 12

\* ------------------------------------------------- program constants
STARTING_BALANCE == 100
DAILY_BONUS == 50
BETTING_WINDOW == 180
GROUP_WAIT_TIME == 15
ALLOWED_MODES == {"competitive", "swiftplay"}

\* ------------------------------------------------ the modelled world
Players == {"p1", "p2"}
Bettors == {"b1", "b2"}
Guilds == {"g1", "g2"}
Sides == {"win", "loss"}
None == 0
MatchIds == 1..MaxMatch
\* amounts typed into /bet and /set
BetAmounts == {0, 60, 150}
SetAmounts == {-5}
\* the draws of round(random.uniform(1.05, 1.20), 2), in hundredths
Multipliers == 105..120
\* the draws the actions enumerate: both ends of the range
DrawSet == {105, 120}

\* The stats provider's matches.  Match m: who played and on which team, its
\* mode, and the team with has_won.  Odd matches are competitive games of p1
\* (red) and p2 (blue) won by red; even ones are deathmatch games of p1 alone.
Roster(m) == IF m % 2 = 1 THEN {"p1", "p2"} ELSE {"p1"}
MatchMode(m) == IF m % 2 = 1 THEN "competitive" ELSE "deathmatch"
\* The Riot id a player registered, and the spelling of the ids in a match
\* payload; Lower is str.lower() on the spellings that occur.
RiotId(p) == IF p = "p1" THEN "Ana#NA1" ELSE "bo#eu"
PayloadNames(m) == IF m % 2 = 1 THEN {"ANA#na1", "Bo#EU"} ELSE {"ANA#na1"}
Lower ==
  [s \in {"Ana#NA1", "ANA#na1", "ana#na1", "bo#eu", "Bo#EU"} |->
     IF s \in {"Ana#NA1", "ANA#na1", "ana#na1"} THEN "ana#na1" ELSE "bo#eu"]

in_payload_exact(p, m) == RiotId(p) \in PayloadNames(m)

\* the player's "name#tag", lower-cased, is a key of match_players
in_payload(p, m) == Lower[RiotId(p)] \in {Lower[n] : n \in PayloadNames(m)}

TeamOf(m, p) == IF p = "p1" THEN "red" ELSE "blue"
HasWon(m, team) == team = "red"

VARIABLES
  user_data,              \* registered players
  user_balances,          \* user -> [balance, daily_claimed]
  active_bets,            \* <<guild, player>> -> pool
  active_sessions,        \* the dict, in insertion order
  poll_index,
  pending_announcements,  \* <<guild, match>> -> group
  announcement_channels,  \* guilds with a channel set
  now,                    \* the clock, in seconds
  played,                 \* matches the stats provider knows
  starts,                 \* start_tracking coroutines suspended on I/O
  poller,                 \* match_poller: idle, or suspended on its query
  tasks,                  \* process_group_announcement tasks asleep
  closers,                \* close_betting_after_delay tasks asleep
  flushes,                \* create_announcement coroutines suspended on a send
  seq,                    \* counters naming coroutines, pools, groups, handoffs
  settled,                \* history: pool id -> times resolve_bets settled it
  flushed,                \* history: group id -> times it was flushed
  delivered,              \* history: handoff id -> flushed batches holding it
  ledgerOps               \* daily bonuses and /set commands so far

vars == <<user_data, user_balances, active_bets, active_sessions, poll_index,
          pending_announcements, announcement_channels, now, played,
          starts, poller, tasks, closers, flushes, seq, settled, flushed,
          delivered, ledgerOps>>

\* ------------------------------------------------------------ helpers
EmptyMap == [x \in {} |-> 0]

Max(a, b) == IF a > b THEN a ELSE b

RECURSIVE SumOver(_, _)
SumOver(f, S) ==
  IF S = {} THEN 0
  ELSE LET x == CHOOSE y \in S : TRUE IN f[x] + SumOver(f, S \ {x})

\* sum(d.values())
SumValues(f) == SumOver(f, DOMAIN f)

\* d with key k removed (dict.pop, del)
Without(f, k) == [x \in (DOMAIN f) \ {k} |-> f[x]]

\* d[k] = v
Put(f, k, v) == [x \in (DOMAIN f) \cup {k} |-> IF x = k THEN v ELSE f[x]]

SetMax(S) == CHOOSE x \in S : \A y \in S : y <= x
SetMin(S) == CHOOSE x \in S : \A y \in S : x <= y

\* ------------------------------------------------------------- ledger
NewAccount == [balance |-> STARTING_BALANCE, daily_claimed |-> FALSE]

\* get_balance: the store after the call (the account is created when missing)
get_balance(ub, user_id) ==
  IF user_id \in DOMAIN ub THEN ub ELSE Put(ub, user_id, NewAccount)

\* get_balance's return value
BalanceOf(ub, user_id) == get_balance(ub, user_id)[user_id].balance

\* update_balance: the store after the call
update_balance(ub, user_id, amount) ==
  LET s == get_balance(ub, user_id)
      b == s[user_id].balance + amount
  IN [s EXCEPT ![user_id].balance = IF b < 0 THEN 0 ELSE b]

set_balance_unclamped(ub, user_id, amount) ==
  [get_balance(ub, user_id) EXCEPT ![user_id].balance = amount]

\* set_balance: the store after the call
set_balance(ub, user_id, amount) ==
  [get_balance(ub, user_id) EXCEPT ![user_id].balance = Max(0, amount)]

\* --------------------------------------------------- float arithmetic
\* Python computes the shares and bonuses in binary floating point and
\* truncates with int().  int(a * 0.25), int(a * 0.20) and int(t * 0.05) agree
\* with the exact quotients for every a, t below 100000.  The two products
\* below fall one short of the exact floor on the listed arguments, where the
\* exact value is an integer and the float lands just under it.
MulShort ==
  { <<25,116>>, <<50,114>>, <<50,116>>, <<100,113>>, <<100,114>>, <<100,115>>,
    <<100,116>>, <<150,114>>, <<180,115>>, <<200,113>>, <<200,114>>,
    <<200,115>>, <<200,116>>, <<220,115>>, <<300,113>>, <<300,114>>,
    <<340,115>>, <<350,114>>, <<360,115>>, <<375,116>>, <<380,115>> }

\* int(x * multiplier), multiplier = m / 100 (x below 400)
MulFloor(x, m) == (x * m) \div 100 - (IF <<x, m>> \in MulShort THEN 1 ELSE 0)

\* <<payout_pool, amount, winning_pool_total>>, stakes multiples of 10 up to
\* 300, payout_pool up to 400; the last entry is the one among the pools of
\* three stakes out of 8, 30, 70, 80, 100, 110, 125
ShareShort ==
  {
      <<22,150,220>>, <<23,130,230>>, <<26,150,260>>, <<44,150,220>>, <<46,130,230>>,
      <<52,150,260>>, <<55,30,110>>, <<55,60,110>>, <<55,60,220>>, <<55,120,220>>,
      <<69,210,230>>, <<75,110,150>>, <<75,220,300>>, <<78,150,260>>, <<84,170,280>>,
      <<87,170,290>>, <<88,150,220>>, <<90,70,100>>, <<90,140,200>>, <<90,210,300>>,
      <<92,130,230>>, <<99,30,110>>, <<99,60,110>>, <<99,60,220>>, <<99,120,220>>,
      <<104,150,260>>, <<110,30,110>>, <<110,60,110>>, <<110,30,220>>, <<110,60,220>>,
      <<110,120,220>>, <<138,210,230>>, <<145,170,290>>, <<145,250,290>>, <<150,110,150>>,
      <<150,110,300>>, <<150,220,300>>, <<153,130,170>>, <<154,150,220>>, <<156,150,260>>,
      <<161,170,230>>, <<165,110,150>>, <<165,220,300>>, <<168,170,280>>, <<170,70,100>>,
      <<170,140,200>>, <<170,210,300>>, <<174,170,290>>, <<176,150,220>>, <<180,70,100>>,
      <<180,70,200>>, <<180,140,200>>, <<180,210,300>>, <<182,150,260>>, <<184,130,230>>,
      <<187,30,110>>, <<187,60,110>>, <<187,60,220>>, <<187,120,220>>, <<196,170,280>>,
      <<198,30,110>>, <<198,60,110>>, <<198,30,220>>, <<198,60,220>>, <<198,120,220>>,
      <<203,170,290>>, <<207,130,230>>, <<208,150,260>>, <<209,30,110>>, <<209,60,110>>,
      <<209,60,220>>, <<209,120,220>>, <<216,130,240>>, <<220,30,110>>, <<220,60,110>>,
      <<220,30,220>>, <<220,60,220>>, <<220,120,220>>, <<231,30,110>>, <<231,60,110>>,
      <<231,60,220>>, <<231,120,220>>, <<276,210,230>>, <<285,110,150>>, <<285,220,300>>,
      <<286,150,220>>, <<286,150,260>>, <<289,130,170>>, <<290,170,290>>, <<290,250,290>>,
      <<299,170,230>>, <<300,110,150>>, <<300,110,300>>, <<300,220,300>>, <<306,130,170>>,
      <<308,150,220>>, <<308,170,280>>, <<312,150,260>>, <<315,110,150>>, <<315,220,300>>,
      <<319,170,290>>, <<322,170,230>>, <<323,130,170>>, <<330,70,100>>, <<330,110,150>>,
      <<330,140,200>>, <<330,150,220>>, <<330,110,300>>, <<330,210,300>>, <<330,220,300>>,
      <<336,170,280>>, <<338,150,260>>, <<338,190,260>>, <<340,70,100>>, <<340,70,200>>,
      <<340,140,200>>, <<340,210,300>>, <<345,110,150>>, <<345,130,230>>, <<345,170,230>>,
      <<345,220,300>>, <<348,170,290>>, <<350,70,100>>, <<350,140,200>>, <<350,210,300>>,
      <<352,150,220>>, <<360,70,100>>, <<360,70,200>>, <<360,140,200>>, <<360,210,300>>,
      <<363,30,110>>, <<363,60,110>>, <<363,60,220>>, <<363,120,220>>, <<364,150,260>>,
      <<364,170,280>>, <<368,130,230>>, <<374,30,110>>, <<374,60,110>>, <<374,30,220>>,
      <<374,60,220>>, <<374,120,220>>, <<374,150,220>>, <<377,170,290>>, <<385,30,110>>,
      <<385,60,110>>, <<385,60,220>>, <<385,120,220>>, <<390,150,260>>, <<391,130,230>>,
      <<392,170,280>>, <<396,30,110>>, <<396,60,110>>, <<396,30,220>>, <<396,60,220>>,
      <<396,120,220>>,
      <<155,125,155>>
  }

\* int(payout_pool * (amount / winning_pool_total))
ShareFloor(payout_pool, amount, winning_pool_total) ==
  (payout_pool * amount) \div winning_pool_total
    - (IF <<payout_pool, amount, winning_pool_total>> \in ShareShort THEN 1 ELSE 0)

\* ---------------------------------------------------------- settlement
\* calculate_payouts.  draw[uid] is the multiplier drawn for bettor uid, in
\* hundredths; the function returns uid -> [payout, profit, bet, side,
\* multiplier] (multiplier 0 stands for None).
Result(payout, profit, bet, side, multiplier) ==
  [payout |-> payout, profit |-> profit, bet |-> bet, side |-> side,
   multiplier |-> multiplier]

winning_side(outcome) == IF outcome = "win" THEN "win" ELSE "loss"

losing_side(outcome) == IF outcome = "win" THEN "loss" ELSE "win"

\* no house take
house_take_none(total_pool) == 0

\* int(total_pool * house_cut): 5% of a pool of 100 coins or more
house_take(total_pool) ==
  IF total_pool >= 100 THEN (total_pool * 5) \div 100 ELSE 0

\* the losing side paid its stakes back
losers_refunded(losing_bets, side) ==
  [uid \in DOMAIN losing_bets |->
     Result(losing_bets[uid], 0, losing_bets[uid], side, 0)]

\* the entries of the losing side
losers(losing_bets, side) ==
  [uid \in DOMAIN losing_bets |->
     Result(0, 0 - losing_bets[uid], losing_bets[uid], side, 0)]

\* max(1, int(amount * pct)), times the multiplier on the win side
bonus(amount, pct, side, multiplier) ==
  IF side = "win"
  THEN MulFloor(Max(1, (amount * pct) \div 100), multiplier)
  ELSE Max(1, (amount * pct) \div 100)

\* the multiplier applied to stake plus bonus
bonused_whole(winning_bets, pct, side, draw) ==
  [uid \in DOMAIN winning_bets |->
     Result(IF side = "win"
            THEN MulFloor(winning_bets[uid] + Max(1, (winning_bets[uid] * pct) \div 100),
                          draw[uid])
            ELSE winning_bets[uid] + Max(1, (winning_bets[uid] * pct) \div 100),
            bonus(winning_bets[uid], pct, side, draw[uid]),
            winning_bets[uid], side,
            IF side = "win" THEN draw[uid] ELSE 0)]

\* the winners paid their stake and a bonus: a lone bettor (25%), or no
\* wager on the losing side (20%)
bonused(winning_bets, pct, side, draw) ==
  [uid \in DOMAIN winning_bets |->
     Result(winning_bets[uid] + bonus(winning_bets[uid], pct, side, draw[uid]),
            bonus(winning_bets[uid], pct, side, draw[uid]),
            winning_bets[uid], side,
            IF side = "win" THEN draw[uid] ELSE 0)]

\* every share rounded up
payout_up(payout_pool, amount, winning_pool_total, side, multiplier) ==
  ShareFloor(payout_pool, amount, winning_pool_total) + 1

\* int(payout_pool * share), times the multiplier on the win side
payout(payout_pool, amount, winning_pool_total, side, multiplier) ==
  IF side = "win"
  THEN MulFloor(ShareFloor(payout_pool, amount, winning_pool_total), multiplier)
  ELSE ShareFloor(payout_pool, amount, winning_pool_total)

\* the winners paid their share of the pool after the house take
shared(winning_bets, payout_pool, side, draw) ==
  [uid \in DOMAIN winning_bets |->
     Result(payout(payout_pool, winning_bets[uid], SumValues(winning_bets), side, draw[uid]),
            payout(payout_pool, winning_bets[uid], SumValues(winning_bets), side, draw[uid])
              - winning_bets[uid],
            winning_bets[uid], side,
            IF side = "win" THEN draw[uid] ELSE 0)]

payouts_of(winning_bets, losing_bets, won, lost, draw) ==
  CASE SumValues(winning_bets) + SumValues(losing_bets) = 0 -> losers(losing_bets, lost)
    [] SumValues(winning_bets) = 0 -> losers(losing_bets, lost)
    [] Cardinality(DOMAIN winning_bets) + Cardinality(DOMAIN losing_bets) = 1
         -> bonused(winning_bets, 25, won, draw) @@ losers(losing_bets, lost)
    [] SumValues(losing_bets) = 0
         -> bonused(winning_bets, 20, won, draw) @@ losers(losing_bets, lost)
    [] OTHER
         -> shared(winning_bets,
                   SumValues(winning_bets) + SumValues(losing_bets)
                     - house_take(SumValues(winning_bets) + SumValues(losing_bets)),
                   won, draw)
              @@ losers(losing_bets, lost)

calculate_payouts(bet_data, outcome, draw) ==
  payouts_of(bet_data.bets[winning_side(outcome)], bet_data.bets[losing_side(outcome)],
             winning_side(outcome), losing_side(outcome), draw)

\* -------------------------------------------------------------- wagers
NewPool(id, closes_at) ==
  [id |-> id, bets |-> [win |-> EmptyMap, loss |-> EmptyMap],
   closes_at |-> closes_at, closed |-> FALSE, debited |-> 0]

HasBet(bet_data, user_id) ==
  \E side \in Sides : user_id \in DOMAIN bet_data.bets[side]

bet_answer_nobalance(ub, pools, t, user_id, bet_key, amount) ==
  IF bet_key \notin DOMAIN pools THEN "NoActiveBetting"
  ELSE IF pools[bet_key].closed \/ t > pools[bet_key].closes_at THEN "PoolClosed"
  ELSE IF amount <= 0 THEN "InvalidAmount"
  ELSE IF HasBet(pools[bet_key], user_id) THEN "DuplicateWager"
  ELSE "Placed"

bet_answer_noduplicate(ub, pools, t, user_id, bet_key, amount) ==
  IF bet_key \notin DOMAIN pools THEN "NoActiveBetting"
  ELSE IF pools[bet_key].closed \/ t > pools[bet_key].closes_at THEN "PoolClosed"
  ELSE IF amount <= 0 THEN "InvalidAmount"
  ELSE IF amount > BalanceOf(ub, user_id) THEN "InsufficientBalance"
  ELSE "Placed"

bet_answer_noflag(ub, pools, t, user_id, bet_key, amount) ==
  IF bet_key \notin DOMAIN pools THEN "NoActiveBetting"
  ELSE IF t > pools[bet_key].closes_at THEN "PoolClosed"
  ELSE IF amount <= 0 THEN "InvalidAmount"
  ELSE IF amount > BalanceOf(ub, user_id) THEN "InsufficientBalance"
  ELSE IF HasBet(pools[bet_key], user_id) THEN "DuplicateWager"
  ELSE "Placed"

\* The answer of the bet command: the checks of bet, in its order.
bet_answer(ub, pools, t, user_id, bet_key, amount) ==
  IF bet_key \notin DOMAIN pools THEN "NoActiveBetting"
  ELSE IF pools[bet_key].closed \/ t > pools[bet_key].closes_at THEN "PoolClosed"
  ELSE IF amount <= 0 THEN "InvalidAmount"
  ELSE IF amount > BalanceOf(ub, user_id) THEN "InsufficientBalance"
  ELSE IF HasBet(pools[bet_key], user_id) THEN "DuplicateWager"
  ELSE "Placed"

\* bet_data["bets"][outcome][user_id] = amount, after update_balance(-amount).
\* debited adds up what the ledger really took.
place_bet(pool, user_id, outcome, amount, taken) ==
  [pool EXCEPT !.bets[outcome] = Put(@, user_id, amount),
               !.debited = @ + taken]

\* ------------------------------------------------------------ sessions
NewSession(uid, last_match_id, guild_id, t) ==
  [uid |-> uid, last_match_id |-> last_match_id, guild_id |-> guild_id,
   started_at |-> t]

SessionUids(sessions) == {sessions[i].uid : i \in DOMAIN sessions}

SessionOf(sessions, uid) ==
  sessions[CHOOSE i \in DOMAIN sessions : sessions[i].uid = uid]

\* a list of sessions in place of the dict: every write adds an entry
PutSession_append(sessions, s) == Append(sessions, s)

\* active_sessions[user_id] = {...}: a present key keeps its place in the dict
PutSession(sessions, s) ==
  IF s.uid \in SessionUids(sessions)
  THEN [i \in DOMAIN sessions |-> IF sessions[i].uid = s.uid THEN s ELSE sessions[i]]
  ELSE Append(sessions, s)

\* del active_sessions[user_id] / active_sessions.pop(uid)
DropSession(sessions, uid) == SelectSeq(sessions, LAMBDA s : s.uid # uid)

\* the stats provider's latest match of a player (None: no match yet)
LatestMatch(p) ==
  LET S == {m \in played : p \in Roster(m)}
  IN IF S = {} THEN None ELSE SetMax(S)

\* ---------------------------------------------------------- aggregator
\* queue_for_announcement, on st = [pending, tasks, seq]: the group is created
\* when missing, the member appended, the armed task cancelled and a new one
\* created.  A cancelled task never runs again: it is dropped from tasks.
group_of_fresh(pending, group_key, gid) ==
  [players |-> <<>>, task |-> 0, gid |-> gid, joined |-> 0]

\* the group under the key, created empty (with no task) when missing; joined
\* is history: the time of the group's last join
group_of(pending, group_key, gid) ==
  IF group_key \notin DOMAIN pending
  THEN [players |-> <<>>, task |-> 0, gid |-> gid, joined |-> 0]
  ELSE pending[group_key]

cancel_task_none(ts, task_id) == ts

\* task.cancel() on the group's armed task (0: no task)
cancel_task(ts, task_id) == {x \in ts : x.id # task_id}

queue_for_announcement(st, uid, session, match_id, t) ==
  LET group_key == <<session.guild_id, match_id>>
      fresh == group_key \notin DOMAIN st.pending
      g0 == group_of(st.pending, group_key, st.seq.group + 1)
      tid == st.seq.task + 1
      g1 == [g0 EXCEPT !.players = Append(@, [user_id |-> uid, h |-> st.seq.handoff + 1]),
                       !.task = tid, !.joined = t]
  IN [pending |-> Put(st.pending, group_key, g1),
      tasks |-> cancel_task(st.tasks, g0.task)
                  \cup {[id |-> tid, key |-> group_key, deadline |-> t + GROUP_WAIT_TIME]},
      seq |-> [st.seq EXCEPT !.task = tid, !.handoff = @ + 1,
                             !.group = IF fresh THEN @ + 1 ELSE @]]

\* the poller's loop over players_with_new_match: pop the session, queue it
RECURSIVE QueueAll(_, _, _, _, _)
QueueAll(st, sessions, uids, match_id, t) ==
  IF uids = <<>> THEN st
  ELSE QueueAll(queue_for_announcement(st, Head(uids), SessionOf(sessions, Head(uids)),
                                       match_id, t),
                sessions, Tail(uids), match_id, t)

\* ---------------------------------------------------------- settlement
\* resolve_bets up to its first await, on st = [bets, ub, settled, noop, sent]:
\* the pool is popped, then paid.  sent says whether the call goes on to
\* await channel.send; settled and noop count the calls that found a pool and
\* those that found none.
pop_pool_keep(pools, bet_key) == pools

\* bet_data = active_bets.pop(bet_key): the map without the pool
pop_pool(pools, bet_key) == Without(pools, bet_key)

\* resolve_bets crediting the profit in place of the payout
resolve_bets_profit(st, bet_key, outcome, draw, channels) ==
  IF bet_key \notin DOMAIN st.bets THEN [st EXCEPT !.sent = FALSE, !.noop = @ + 1]
  ELSE
    LET bet_data == st.bets[bet_key]
        total_pool == SumValues(bet_data.bets.win) + SumValues(bet_data.bets.loss)
        payouts == calculate_payouts(bet_data, outcome, draw)
        paid == {uid \in DOMAIN payouts : payouts[uid].payout > 0}
        credit == [uid \in paid |-> payouts[uid].profit]
        RECURSIVE Apply(_, _)
        Apply(ub, S) ==
          IF S = {} THEN ub
          ELSE LET uid == CHOOSE x \in S : TRUE
               IN Apply(update_balance(ub, uid, credit[uid]), S \ {uid})
        popped == [st EXCEPT !.bets = pop_pool(@, bet_key),
                             !.settled[bet_data.id] = @ + 1]
    IN IF total_pool = 0 THEN [popped EXCEPT !.sent = FALSE]
       ELSE [popped EXCEPT !.ub = Apply(@, paid),
                           !.sent = bet_key[1] \in channels]

resolve_bets(st, bet_key, outcome, draw, channels) ==
  IF bet_key \notin DOMAIN st.bets THEN [st EXCEPT !.sent = FALSE, !.noop = @ + 1]
  ELSE
    LET bet_data == st.bets[bet_key]
        total_pool == SumValues(bet_data.bets.win) + SumValues(bet_data.bets.loss)
        payouts == calculate_payouts(bet_data, outcome, draw)
        paid == {uid \in DOMAIN payouts : payouts[uid].payout > 0}
        credit == [uid \in paid |-> payouts[uid].payout]
        RECURSIVE Apply(_, _)
        Apply(ub, S) ==
          IF S = {} THEN ub
          ELSE LET uid == CHOOSE x \in S : TRUE
               IN Apply(update_balance(ub, uid, credit[uid]), S \ {uid})
        popped == [st EXCEPT !.bets = pop_pool(@, bet_key),
                             !.settled[bet_data.id] = @ + 1]
    IN IF total_pool = 0 THEN [popped EXCEPT !.sent = FALSE]
       ELSE [popped EXCEPT !.ub = Apply(@, paid),
                           !.sent = bet_key[1] \in channels]

\* create_announcement's loop "for ps in player_stats: await resolve_bets(...)"
\* from member i, up to the first resolve_bets that suspends on its send (at is
\* that member's index) or to the end of the list (at = 0).
RECURSIVE ResolveFrom(_, _, _, _, _, _)
ResolveFrom(st, guild, stats, i, draw, channels) ==
  IF i > Len(stats) THEN [st EXCEPT !.at = 0]
  ELSE LET r == resolve_bets([bets |-> st.bets, ub |-> st.ub, settled |-> st.settled,
                              noop |-> st.noop, sent |-> FALSE],
                             <<guild, stats[i].uid>>,
                             IF stats[i].won THEN "win" ELSE "loss", draw, channels)
           st1 == [bets |-> r.bets, ub |-> r.ub, settled |-> r.settled,
                   noop |-> r.noop, at |-> i]
       IN IF r.sent THEN st1
          ELSE ResolveFrom(st1, guild, stats, i + 1, draw, channels)

\* every member gets the flag of the batch's first member (overall_won)
PlayerStats_overall(players, match_id) ==
  LET found == SelectSeq(players, LAMBDA p : in_payload(p.user_id, match_id))
  IN [i \in DOMAIN found |->
        [uid |-> found[i].user_id,
         won |-> HasWon(match_id, TeamOf(match_id, found[1].user_id))]]

\* create_announcement's player_stats: the members found in the match payload,
\* each with the has_won flag of its own team
PlayerStats(players, match_id) ==
  LET found == SelectSeq(players, LAMBDA p : in_payload(p.user_id, match_id))
  IN [i \in DOMAIN found |->
        [uid |-> found[i].user_id,
         won |-> HasWon(match_id, TeamOf(match_id, found[i].user_id))]]

\* ---------------------------------------------------------------- Init
\* on_ready has loaded the registrations and the settings (no guild has set a
\* channel, or every guild has); no balance and no session yet.
Init ==
  /\ user_data = Players
  /\ user_balances = EmptyMap
  /\ active_bets = EmptyMap
  /\ active_sessions = <<>>
  /\ poll_index = 0
  /\ pending_announcements = EmptyMap
  /\ announcement_channels \in {{}, Guilds}
  /\ now = 0
  /\ played = {}
  /\ starts = {}
  /\ poller = [pc |-> "idle", uid |-> "", asked |-> <<>>]
  /\ tasks = {}
  /\ closers = {}
  /\ flushes = {}
  /\ seq = [start |-> 0, pool |-> 0, task |-> 0, group |-> 0, handoff |-> 0, noop |-> 0,
            skip |-> 0]
  /\ settled = EmptyMap
  /\ flushed = EmptyMap
  /\ delivered = EmptyMap
  /\ ledgerOps = 0

\* the outcomes of a call to the stats provider: a payload, no data, an error
ApiOutcomes == {"ok", "none", "raise"}

\* history functions grow with the counters
Grown(f, n) == [i \in 1..n |-> IF i \in DOMAIN f THEN f[i] ELSE 0]

\* ------------------------------------------------------- registration
unregister(p) ==
  /\ p \in user_data
  /\ user_data' = user_data \ {p}
  /\ active_sessions' = DropSession(active_sessions, p)
  /\ UNCHANGED <<user_balances, active_bets, poll_index, pending_announcements,
                 announcement_channels, now, played, starts, poller, tasks,
                 closers, flushes, seq, settled, flushed, delivered, ledgerOps>>

\* ------------------------------------------------------------ presence
\* on_presence_update, the game activity appearing (it may appear again after
\* it disappeared: that branch of the handler changes nothing): a registered
\* member's start_tracking runs up to its await of get_last_match_id.
on_presence_update(p, g) ==
  /\ p \in user_data
  /\ starts' = starts \cup {[id |-> seq.start + 1, uid |-> p, guild |-> g,
                              pc |-> "fetch", scan |-> FALSE]}
  /\ seq' = [seq EXCEPT !.start = @ + 1]
  /\ UNCHANGED <<user_data, user_balances, active_bets, active_sessions, poll_index,
                 pending_announcements, announcement_channels, now, played, poller,
                 tasks, closers, flushes, settled, flushed, delivered, ledgerOps>>

\* on_ready's scan reaching member p of guild g, who is playing: registered
\* and with no session, its start_tracking runs up to its await of
\* get_last_match_id.  The scan awaits each start_tracking before it looks at
\* the next member.
on_ready(p, g) ==
  /\ p \in user_data
  /\ p \notin SessionUids(active_sessions)
  /\ \A c \in starts : ~c.scan
  /\ starts' = starts \cup {[id |-> seq.start + 1, uid |-> p, guild |-> g,
                              pc |-> "fetch", scan |-> TRUE]}
  /\ seq' = [seq EXCEPT !.start = @ + 1]
  /\ UNCHANGED <<user_data, user_balances, active_bets, active_sessions, poll_index,
                 pending_announcements, announcement_channels, now, played, poller,
                 tasks, closers, flushes, settled, flushed, delivered, ledgerOps>>

\* start_tracking from the answer of get_last_match_id to open_betting's await
\* of channel.send: the session is written, the pool is written over the key.
start_tracking(c, api) ==
  /\ c \in starts
  /\ c.pc = "fetch"
  /\ IF api = "raise"
     THEN /\ starts' = starts \ {c}
          /\ UNCHANGED <<active_sessions, active_bets, seq, settled>>
     ELSE LET last_match_id == IF api = "ok" THEN LatestMatch(c.uid) ELSE None
              bet_key == <<c.guild, c.uid>>
          IN /\ active_sessions' =
                  PutSession(active_sessions, NewSession(c.uid, last_match_id, c.guild, now))
             /\ IF c.guild \in announcement_channels
                THEN /\ active_bets' =
                          Put(active_bets, bet_key, NewPool(seq.pool + 1, now + BETTING_WINDOW))
                     /\ seq' = [seq EXCEPT !.pool = @ + 1]
                     /\ settled' = Grown(settled, seq.pool + 1)
                     /\ starts' = (starts \ {c}) \cup {[c EXCEPT !.pc = "send"]}
                ELSE /\ starts' = starts \ {c}
                     /\ UNCHANGED <<active_bets, seq, settled>>
  /\ UNCHANGED <<user_data, user_balances, poll_index, pending_announcements,
                 announcement_channels, now, played, poller, tasks, closers,
                 flushes, flushed, delivered, ledgerOps>>

\* open_betting from the return of channel.send: the message is stored in the
\* pool now under the key (KeyError when there is none) and the close is
\* scheduled.  A send that raises ends the coroutine.
open_betting(c, sent) ==
  /\ c \in starts
  /\ c.pc = "send"
  /\ starts' = starts \ {c}
  /\ closers' = IF sent /\ <<c.guild, c.uid>> \in DOMAIN active_bets
                THEN closers \cup {[key |-> <<c.guild, c.uid>>,
                                    deadline |-> now + BETTING_WINDOW]}
                ELSE closers
  /\ UNCHANGED <<user_data, user_balances, active_bets, active_sessions, poll_index,
                 pending_announcements, announcement_channels, now, played,
                 poller, tasks, flushes, seq, settled, flushed, delivered, ledgerOps>>

\* close_betting_after_delay waking from its sleep: close_betting
close_betting(t) ==
  /\ t \in closers
  /\ now >= t.deadline
  /\ closers' = closers \ {t}
  /\ active_bets' = IF t.key \in DOMAIN active_bets
                    THEN [active_bets EXCEPT ![t.key].closed = TRUE]
                    ELSE active_bets
  /\ UNCHANGED <<user_data, user_balances, active_sessions, poll_index,
                 pending_announcements, announcement_channels, now, played,
                 starts, poller, tasks, flushes, seq, settled, flushed, delivered,
                 ledgerOps>>

\* ------------------------------------------------------------- the bet
bet_ledger_early(ub, answer, user_id, amount) ==
  IF answer \in {"Placed", "DuplicateWager"} THEN update_balance(ub, user_id, 0 - amount)
  ELSE IF answer = "InsufficientBalance" THEN get_balance(ub, user_id)
  ELSE ub

\* the ledger after the bet command
bet_ledger(ub, answer, user_id, amount) ==
  IF answer = "Placed" THEN update_balance(ub, user_id, 0 - amount)
  ELSE IF answer \in {"InsufficientBalance", "DuplicateWager"} THEN get_balance(ub, user_id)
  ELSE ub

\* the pools after the bet command
bet_pools(pools, ub, answer, user_id, bet_key, outcome, amount) ==
  IF answer = "Placed"
  THEN [pools EXCEPT ![bet_key] =
          place_bet(@, user_id, outcome, amount,
                    BalanceOf(ub, user_id)
                      - BalanceOf(update_balance(ub, user_id, 0 - amount), user_id))]
  ELSE pools

bet(user_id, g, player, outcome, amount) ==
  LET bet_key == <<g, player>>
      answer == bet_answer(user_balances, active_bets, now, user_id, bet_key, amount)
  IN /\ user_balances' = bet_ledger(user_balances, answer, user_id, amount)
     /\ active_bets' = bet_pools(active_bets, user_balances, answer, user_id, bet_key,
                                 outcome, amount)
     /\ UNCHANGED <<user_data, active_sessions, poll_index, pending_announcements,
                    announcement_channels, now, played, starts, poller, tasks,
                    closers, flushes, seq, settled, flushed, delivered, ledgerOps>>

\* ------------------------------------------- the other ledger commands
set_coins(user_id, amount) ==
  /\ ledgerOps < MaxLedgerOps
  /\ ledgerOps' = ledgerOps + 1
  /\ user_balances' = set_balance(user_balances, user_id, amount)
  /\ UNCHANGED <<user_data, active_bets, active_sessions, poll_index,
                 pending_announcements, announcement_channels, now, played,
                 starts, poller, tasks, closers, flushes, seq, settled, flushed,
                 delivered>>

\* on_voice_state_update, a member leaving voice with the day's 30 minutes
\* done and the bonus unclaimed
on_voice_state_update(user_id) ==
  /\ ledgerOps < MaxLedgerOps
  /\ ~get_balance(user_balances, user_id)[user_id].daily_claimed
  /\ ledgerOps' = ledgerOps + 1
  /\ user_balances' =
       update_balance([get_balance(user_balances, user_id)
                         EXCEPT ![user_id].daily_claimed = TRUE],
                      user_id, DAILY_BONUS)
  /\ UNCHANGED <<user_data, active_bets, active_sessions, poll_index,
                 pending_announcements, announcement_channels, now, played,
                 starts, poller, tasks, closers, flushes, seq, settled, flushed,
                 delivered>>

\* ---------------------------------------------------------- the poller
\* the stats provider learns of a finished match
EndMatch(m) ==
  /\ m \in MatchIds
  /\ \A x \in played : x < m
  /\ played' = played \cup {m}
  /\ UNCHANGED <<user_data, user_balances, active_bets, active_sessions, poll_index,
                 pending_announcements, announcement_channels, now, starts,
                 poller, tasks, closers, flushes, seq, settled, flushed, delivered,
                 ledgerOps>>

poll_queries_all(sessions, registered, index) ==
  SelectSeq([i \in DOMAIN sessions |-> sessions[i].uid], LAMBDA u : u \in registered)

\* the first session asked at every run
poll_queries_first(sessions, registered, index) ==
  IF sessions = <<>> THEN <<>>
  ELSE IF sessions[1].uid \in registered THEN <<sessions[1].uid>>
  ELSE <<>>

\* the players whose last match one run of match_poller asks the stats
\* provider for: the round-robin pick, when it is registered
poll_queries(sessions, registered, index) ==
  IF sessions = <<>> THEN <<>>
  ELSE IF sessions[(index % Len(sessions)) + 1].uid \in registered
  THEN <<sessions[(index % Len(sessions)) + 1].uid>>
  ELSE <<>>

\* match_poller up to its await of get_last_match: the round-robin pick.
\* asked is history: the queries of the run.
match_poller ==
  /\ poller.pc = "idle"
  /\ active_sessions # <<>>
  /\ poll_index' = (poll_index % Len(active_sessions)) + 1
  /\ LET asked == poll_queries(active_sessions, user_data, poll_index)
     IN poller' = IF asked = <<>> THEN poller
                  ELSE [pc |-> "waiting", uid |-> asked[1], asked |-> asked]
  /\ UNCHANGED <<user_data, user_balances, active_bets, active_sessions,
                 pending_announcements, announcement_channels, now, played,
                 starts, tasks, closers, flushes, seq, settled, flushed, delivered,
                 ledgerOps>>

players_with_new_match_polled(sessions, registered, match_id) ==
  LET hit == SelectSeq(sessions,
                       LAMBDA s : /\ s.uid \in registered
                                  /\ s.uid = poller.uid
                                  /\ s.last_match_id # match_id)
  IN [i \in DOMAIN hit |-> hit[i].uid]

\* players_with_new_match: the sessions, in dict order, of registered players
\* who are in the payload and whose last_match_id is not the payload's
players_with_new_match(sessions, registered, match_id) ==
  LET hit == SelectSeq(sessions,
                       LAMBDA s : /\ s.uid \in registered
                                  /\ in_payload(s.uid, match_id)
                                  /\ s.last_match_id # match_id)
  IN [i \in DOMAIN hit |-> hit[i].uid]

SeqRange(s) == {s[i] : i \in DOMAIN s}

current_match_unchecked(api, uid) == LatestMatch(uid)

\* the match id of the payload get_last_match answers with; None when it
\* returns no data or raises
current_match(api, uid) == IF api = "ok" THEN LatestMatch(uid) ELSE None

advance_baselines_none(sessions, found, match_id) == sessions

\* active_sessions[uid]["last_match_id"] = current_match_id, for uid in
\* players_with_new_match
advance_baselines(sessions, found, match_id) ==
  [i \in DOMAIN sessions |->
     IF sessions[i].uid \in SeqRange(found)
     THEN [sessions[i] EXCEPT !.last_match_id = match_id]
     ELSE sessions[i]]

\* match_poller from the answer of get_last_match to its end; seq.skip is
\* history: the matches skipped for their mode
match_poller_resume(api) ==
  /\ poller.pc = "waiting"
  /\ poller' = [pc |-> "idle", uid |-> "", asked |-> <<>>]
  /\ LET current_match_id == current_match(api, poller.uid)
         found == players_with_new_match(active_sessions, user_data, current_match_id)
     IN IF current_match_id = None \/ found = <<>>
        THEN UNCHANGED <<active_sessions, pending_announcements, tasks, seq, flushed,
                         delivered>>
        ELSE IF MatchMode(current_match_id) \notin ALLOWED_MODES
        THEN /\ active_sessions' = advance_baselines(active_sessions, found, current_match_id)
             /\ seq' = [seq EXCEPT !.skip = @ + 1]
             /\ UNCHANGED <<pending_announcements, tasks, flushed, delivered>>
        ELSE LET st == QueueAll([pending |-> pending_announcements, tasks |-> tasks,
                                 seq |-> seq],
                                active_sessions, found, current_match_id, now)
             IN /\ active_sessions' =
                     SelectSeq(active_sessions, LAMBDA s : s.uid \notin SeqRange(found))
                /\ pending_announcements' = st.pending
                /\ tasks' = st.tasks
                /\ seq' = st.seq
                /\ flushed' = Grown(flushed, st.seq.group)
                /\ delivered' = Grown(delivered, st.seq.handoff)
  /\ UNCHANGED <<user_data, user_balances, active_bets, poll_index,
                 announcement_channels, now, played, starts, closers, flushes,
                 settled, ledgerOps>>

\* ------------------------------------------------------------ the flush
\* the state after the resolve loop has run from member i of a flush
AfterResolve(f, i, draw) ==
  ResolveFrom([bets |-> active_bets, ub |-> user_balances, settled |-> settled,
               noop |-> seq.noop, at |-> 0],
              f.guild, f.stats, i, draw, announcement_channels)

\* the flush left suspended by the resolve loop, if any
Suspended(f, r) ==
  IF r.at = 0 THEN {} ELSE {[f EXCEPT !.idx = r.at + 1, !.pc = "result"]}

pop_group_keep(pending, group_key) == pending

\* group_data = pending_announcements.pop(group_key): the map without the group
pop_group(pending, group_key) == Without(pending, group_key)

\* process_group_announcement waking from its sleep: the group is popped and
\* create_announcement runs up to its first await
process_group_announcement(t, draw) ==
  /\ t \in tasks
  /\ now >= t.deadline
  /\ tasks' = tasks \ {t}
  /\ IF t.key \notin DOMAIN pending_announcements
     THEN UNCHANGED <<pending_announcements, flushed, delivered, flushes, active_bets,
                      user_balances, settled, seq>>
     ELSE LET group_data == pending_announcements[t.key]
              players == group_data.players
              stats == PlayerStats(players, t.key[2])
              f == [id |-> group_data.gid, guild |-> t.key[1], stats |-> stats,
                    idx |-> 1, pc |-> "announce"]
              r == AfterResolve(f, 1, draw)
          IN /\ pending_announcements' = pop_group(pending_announcements, t.key)
             /\ flushed' = [flushed EXCEPT ![group_data.gid] = @ + 1]
             /\ delivered' = [h \in DOMAIN delivered |->
                                delivered[h]
                                  + Cardinality({i \in DOMAIN players : players[i].h = h})]
             /\ IF stats = <<>>
                THEN UNCHANGED <<flushes, active_bets, user_balances, settled, seq>>
                ELSE IF t.key[1] \in announcement_channels
                THEN /\ flushes' = flushes \cup {f}
                     /\ UNCHANGED <<active_bets, user_balances, settled, seq>>
                ELSE /\ flushes' = flushes \cup Suspended(f, r)
                     /\ active_bets' = r.bets
                     /\ user_balances' = r.ub
                     /\ settled' = r.settled
                     /\ seq' = [seq EXCEPT !.noop = r.noop]
  /\ UNCHANGED <<user_data, active_sessions, poll_index, announcement_channels, now,
                 played, starts, poller, closers, ledgerOps>>

\* create_announcement from the return of a channel.send (its own, or the one
\* ending a resolve_bets) up to the next one.  A send that raises ends the task.
create_announcement(f, sent, draw) ==
  /\ f \in flushes
  /\ IF ~sent
     THEN /\ flushes' = flushes \ {f}
          /\ UNCHANGED <<active_bets, user_balances, settled, seq>>
     ELSE LET r == AfterResolve(f, f.idx, draw)
          IN /\ flushes' = (flushes \ {f}) \cup Suspended(f, r)
             /\ active_bets' = r.bets
             /\ user_balances' = r.ub
             /\ settled' = r.settled
             /\ seq' = [seq EXCEPT !.noop = r.noop]
  /\ UNCHANGED <<user_data, active_sessions, poll_index, pending_announcements,
                 announcement_channels, now, played, starts, poller, tasks,
                 closers, flushed, delivered, ledgerOps>>

\* ------------------------------------------------------------ the clock
\* The clock moves to the next instant at which something can change, and
\* never past the wake-up time of a sleeping task.
Deadlines == {t.deadline : t \in tasks} \cup {t.deadline : t \in closers}

TimePoints == Deadlines \cup {active_bets[k].closes_at + 1 : k \in DOMAIN active_bets}

Tick ==
  /\ \E t \in TimePoints :
       /\ t > now
       /\ \A d \in Deadlines : t <= d
       /\ now' = t
  /\ UNCHANGED <<user_data, user_balances, active_bets, active_sessions, poll_index,
                 pending_announcements, announcement_channels, played, starts,
                 poller, tasks, closers, flushes, seq, settled, flushed, delivered,
                 ledgerOps>>

\* The clock moves by a few seconds while every armed timer sleeps on.
Advance(d) ==
  /\ tasks # {}
  /\ now + d <= MaxAdvance
  /\ \A x \in Deadlines : now + d <= x
  /\ now' = now + d
  /\ UNCHANGED <<user_data, user_balances, active_bets, active_sessions, poll_index,
                 pending_announcements, announcement_channels, played, starts,
                 poller, tasks, closers, flushes, seq, settled, flushed, delivered,
                 ledgerOps>>

\* ---------------------------------------------------- the specification
Draws == [Bettors -> DrawSet]

\* One session of one tracked subject and the bettors on it: every handler
\* runs, with the subject, the guild and the match fixed.
Next ==
  \/ unregister("p1")
  \/ seq.start < WagerStarts /\ on_presence_update("p1", "g1")
  \/ \E c \in starts, api \in ApiOutcomes : start_tracking(c, api)
  \/ \E c \in starts, sent \in BOOLEAN : open_betting(c, sent)
  \/ \E t \in closers : close_betting(t)
  \/ \E u \in Bettors, side \in Sides, a \in BetAmounts : bet(u, "g1", "p1", side, a)
  \/ \E u \in Bettors, a \in SetAmounts : set_coins(u, a)
  \/ \E u \in Bettors : on_voice_state_update(u)
  \/ EndMatch(1)
  \/ match_poller
  \/ \E api \in ApiOutcomes : match_poller_resume(api)
  \/ \E t \in tasks, draw \in Draws : process_group_announcement(t, draw)
  \/ \E f \in flushes, sent \in BOOLEAN, draw \in Draws : create_announcement(f, sent, draw)
  \/ Tick

Spec == Init /\ [][Next]_vars

\* Repeated sessions of one subject, one bettor.
RestartNext ==
  \/ seq.start < MaxStarts /\ on_presence_update("p1", "g1")
  \/ \E c \in starts, api \in ApiOutcomes : start_tracking(c, api)
  \/ \E c \in starts, sent \in BOOLEAN : open_betting(c, sent)
  \/ \E t \in closers : close_betting(t)
  \/ \E side \in Sides, a \in BetAmounts : bet("b1", "g1", "p1", side, a)
  \/ EndMatch(1)
  \/ match_poller
  \/ \E api \in ApiOutcomes : match_poller_resume(api)
  \/ \E t \in tasks, draw \in Draws : process_group_announcement(t, draw)
  \/ \E f \in flushes, sent \in BOOLEAN, draw \in Draws : create_announcement(f, sent, draw)
  \/ Tick

RestartSpec == Init /\ [][RestartNext]_vars

\* The registry, the poller and the aggregator with both players, no wager
\* placed.
AggNext ==
  \/ \E p \in Players : seq.start < MaxStarts /\ on_presence_update(p, "g1")
  \/ \E c \in starts, api \in ApiOutcomes : start_tracking(c, api)
  \/ \E c \in starts, sent \in BOOLEAN : open_betting(c, sent)
  \/ \E t \in closers : close_betting(t)
  \/ EndMatch(1)
  \/ match_poller
  \/ \E api \in ApiOutcomes : match_poller_resume(api)
  \/ \E t \in tasks, draw \in Draws : process_group_announcement(t, draw)
  \/ \E f \in flushes, sent \in BOOLEAN, draw \in Draws : create_announcement(f, sent, draw)
  \/ Tick

AggSpec == Init /\ [][AggNext]_vars

\* The debounce: repeated sessions of one subject joining one group, the clock
\* moving between the joins; no guild has a channel, so no pool is opened.
DebounceNext ==
  \/ seq.start < DebounceStarts /\ on_presence_update("p1", "g1")
  \/ \E c \in starts, api \in ApiOutcomes : start_tracking(c, api)
  \/ EndMatch(1)
  \/ match_poller
  \/ \E api \in ApiOutcomes : match_poller_resume(api)
  \/ \E t \in tasks, draw \in Draws : process_group_announcement(t, draw)
  \/ Tick
  \/ \E d \in {5, 7} : Advance(d)

\* no guild has set a channel
DebounceInit == Init /\ announcement_channels = {}

DebounceSpec == DebounceInit /\ [][DebounceNext]_vars

\* The poller on matches of both kinds: an allow-listed match of both players
\* and a later deathmatch of p1 alone.
ModeNext ==
  \/ \E p \in Players : seq.start < MaxStarts /\ on_presence_update(p, "g1")
  \/ \E c \in starts, api \in ApiOutcomes : start_tracking(c, api)
  \/ \E c \in starts, sent \in BOOLEAN : open_betting(c, sent)
  \/ \E t \in closers : close_betting(t)
  \/ \E m \in MatchIds : EndMatch(m)
  \/ match_poller
  \/ \E api \in ApiOutcomes : match_poller_resume(api)
  \/ \E t \in tasks, draw \in Draws : process_group_announcement(t, draw)
  \/ \E f \in flushes, sent \in BOOLEAN, draw \in Draws : create_announcement(f, sent, draw)
  \/ Tick

ModeSpec == Init /\ [][ModeNext]_vars

\* One player seen in both guilds, by presence updates and by the startup
\* scan.
GuildNext ==
  \/ \E g \in Guilds : seq.start < MaxStarts /\ on_presence_update("p1", g)
  \/ \E g \in Guilds : seq.start < MaxStarts /\ on_ready("p1", g)
  \/ \E c \in starts, api \in ApiOutcomes : start_tracking(c, api)
  \/ \E c \in starts, sent \in BOOLEAN : open_betting(c, sent)
  \/ \E t \in closers : close_betting(t)
  \/ EndMatch(1)
  \/ match_poller
  \/ \E api \in ApiOutcomes : match_poller_resume(api)
  \/ \E t \in tasks, draw \in Draws : process_group_announcement(t, draw)
  \/ \E f \in flushes, sent \in BOOLEAN, draw \in Draws : create_announcement(f, sent, draw)
  \/ Tick

GuildSpec == Init /\ [][GuildNext]_vars

\* A party: both players tracked in one guild, on opposite teams of match 1,
\* b1 staking on p2 and b2 on p1.
PartyNext ==
  \/ \E q \in Players \ (SessionUids(active_sessions) \cup {c.uid : c \in starts}) :
       seq.start < MaxStarts /\ on_presence_update(q, "g1")
  \/ \E c \in starts : start_tracking(c, "ok")
  \/ \E c \in starts : open_betting(c, TRUE)
  \/ \E side \in Sides : bet("b1", "g1", "p2", side, 60)
  \/ \E side \in Sides : bet("b2", "g1", "p1", side, 60)
  \/ EndMatch(1)
  \/ match_poller
  \/ match_poller_resume("ok")
  \/ \E t \in tasks, draw \in Draws : process_group_announcement(t, draw)
  \/ \E f \in flushes, sent \in BOOLEAN, draw \in Draws : create_announcement(f, sent, draw)
  \/ Tick

\* every guild has set a channel
PartyInit == Init /\ announcement_channels = Guilds

PartySpec == PartyInit /\ [][PartyNext]_vars

\* Settlement on its own.  The bettors and stakes of one pool, every way the
\* three of them can have staked on it:
PayoutBettors == {"b1", "b2", "b3"}
PayoutStakes == {8, 30, 70, 80, 100, 110, 125}
Wagers == [PayoutBettors -> {<<"none", 0>>} \cup (Sides \X PayoutStakes)]

\* bet_data["bets"][side] of the wagers w
BetsOn(w, side) ==
  [u \in {x \in PayoutBettors : w[x][1] = side} |-> w[u][2]]

PoolOf(w) ==
  [id |-> 1, bets |-> [win |-> BetsOn(w, "win"), loss |-> BetsOn(w, "loss")],
   closes_at |-> BETTING_WINDOW, closed |-> TRUE,
   debited |-> SumValues(BetsOn(w, "win")) + SumValues(BetsOn(w, "loss"))]

\* the multipliers drawn in one settlement: the ends of the range for each
\* bettor independently, and every value of the range
PayoutDraws ==
  [PayoutBettors -> DrawSet] \cup {[u \in PayoutBettors |-> m] : m \in Multipliers}

\* The state in which process_group_announcement has popped the group of
\* player q's match 1 and create_announcement waits for its send: the session
\* is gone, the pool is closed and holds the wagers of bettors who staked all
\* they had.
Settling(q, pool) ==
  /\ user_data = Players
  /\ user_balances = [u \in (DOMAIN pool.bets.win) \cup (DOMAIN pool.bets.loss) |->
                        [balance |-> 0, daily_claimed |-> FALSE]]
  /\ active_bets = Put(EmptyMap, <<"g1", q>>, pool)
  /\ active_sessions = <<>>
  /\ poll_index = 1
  /\ pending_announcements = EmptyMap
  /\ announcement_channels = Guilds
  /\ now = BETTING_WINDOW
  /\ played = {1}
  /\ starts = {}
  /\ poller = [pc |-> "idle", uid |-> "", asked |-> <<>>]
  /\ tasks = {}
  /\ closers = {}
  /\ flushes = {[id |-> 1, guild |-> "g1",
                 stats |-> PlayerStats(<<[user_id |-> q]>>, 1),
                 idx |-> 1, pc |-> "announce"]}
  /\ seq = [start |-> 1, pool |-> 1, task |-> 1, group |-> 1, handoff |-> 1,
            noop |-> 0, skip |-> 0]
  /\ settled = <<0>>
  /\ flushed = <<1>>
  /\ delivered = <<1>>
  /\ ledgerOps = 0

PayoutInit == \E q \in Players, w \in Wagers : Settling(q, PoolOf(w))

PayoutNext ==
  \E f \in flushes, sent \in BOOLEAN, draw \in PayoutDraws : create_announcement(f, sent, draw)

PayoutSpec == PayoutInit /\ [][PayoutNext]_vars

\* Settlement of pools with up to four bettors on one side: five bettors,
\* small stakes.
FloorBettors == {"b1", "b2", "b3", "b4", "b5"}
FloorStakes == {7, 10, 30}
FloorWagers == [FloorBettors -> {<<"none", 0>>} \cup (Sides \X FloorStakes)]

FloorBetsOn(w, side) ==
  [u \in {x \in FloorBettors : w[x][1] = side} |-> w[u][2]]

FloorPoolOf(w) ==
  [id |-> 1, bets |-> [win |-> FloorBetsOn(w, "win"), loss |-> FloorBetsOn(w, "loss")],
   closes_at |-> BETTING_WINDOW, closed |-> TRUE,
   debited |-> SumValues(FloorBetsOn(w, "win")) + SumValues(FloorBetsOn(w, "loss"))]

\* every bettor draws the same end of the range
FloorDraws == {[u \in FloorBettors |-> m] : m \in DrawSet}

FloorInit == \E q \in Players, w \in FloorWagers : Settling(q, FloorPoolOf(w))

FloorNext ==
  \E f \in flushes, sent \in BOOLEAN, draw \in FloorDraws : create_announcement(f, sent, draw)

FloorSpec == FloorInit /\ [][FloorNext]_vars

\* Polling three tracked players, no guild having set a channel and no match
\* ending; p3 may unregister.
PollPlayers == {"p1", "p2", "p3"}
PollStarts == 3

PollInit ==
  /\ user_data = PollPlayers
  /\ user_balances = EmptyMap
  /\ active_bets = EmptyMap
  /\ active_sessions = <<>>
  /\ poll_index = 0
  /\ pending_announcements = EmptyMap
  /\ announcement_channels = {}
  /\ now = 0
  /\ played = {}
  /\ starts = {}
  /\ poller = [pc |-> "idle", uid |-> "", asked |-> <<>>]
  /\ tasks = {}
  /\ closers = {}
  /\ flushes = {}
  /\ seq = [start |-> 0, pool |-> 0, task |-> 0, group |-> 0, handoff |-> 0, noop |-> 0,
            skip |-> 0]
  /\ settled = EmptyMap
  /\ flushed = EmptyMap
  /\ delivered = EmptyMap
  /\ ledgerOps = 0

PollNext ==
  \/ \E q \in PollPlayers \ (SessionUids(active_sessions) \cup {c.uid : c \in starts}) :
       seq.start < PollStarts /\ on_presence_update(q, "g1")
  \/ \E c \in starts, api \in ApiOutcomes : start_tracking(c, api)
  \/ unregister("p3")
  \/ match_poller
  \/ \E api \in ApiOutcomes : match_poller_resume(api)

PollSpec == PollInit /\ [][PollNext]_vars

\* The places where a handler reads or writes one of the two maps, each with
\* whether it lies inside "async with announcement_lock".  No lock body holds
\* an await, so the lock is free whenever a coroutine is suspended.
LockSites ==
  { [handler |-> "on_ready", map |-> "active_sessions", locked |-> FALSE],
    [handler |-> "on_presence_update", map |-> "active_sessions", locked |-> FALSE],
    [handler |-> "on_voice_state_update", map |-> "active_sessions", locked |-> FALSE],
    [handler |-> "start_tracking", map |-> "active_sessions", locked |-> FALSE],
    [handler |-> "match_poller", map |-> "active_sessions", locked |-> FALSE],
    [handler |-> "unregister", map |-> "active_sessions", locked |-> FALSE],
    [handler |-> "match_poller", map |-> "pending_announcements", locked |-> TRUE],
    [handler |-> "process_group_announcement", map |-> "pending_announcements",
     locked |-> TRUE] }

\* ============================================================ properties
Stake(bet_data) == SumValues(bet_data.bets.win) + SumValues(bet_data.bets.loss)

\* ---------------------------------------------------------------- C1
\* resolve_bets called now on a key, from the current state
ResolveNow(bet_key, outcome, draw) ==
  resolve_bets([bets |-> active_bets, ub |-> user_balances, settled |-> settled,
                noop |-> 0, sent |-> FALSE],
               bet_key, outcome, draw, announcement_channels)

\* C1: no pool is settled more than once: a pool that resolve_bets has
\* settled is no longer in the pool map, and resolve_bets on a key with no
\* pool credits nothing, settles nothing and sends nothing.
C1_SettledAtMostOnce ==
  /\ \A id \in DOMAIN settled : settled[id] <= 1
  /\ \A key \in DOMAIN active_bets : settled[active_bets[key].id] = 0
  /\ \A key \in (Guilds \X Players) \ DOMAIN active_bets, outcome \in Sides,
        draw \in Draws :
       LET r == ResolveNow(key, outcome, draw)
       IN /\ r.bets = active_bets
          /\ r.ub = user_balances
          /\ r.settled = settled
          /\ ~r.sent

\* a pool was settled and paid, and a later resolve_bets on its key found none
C1_Witness ==
  /\ \E id \in DOMAIN settled : settled[id] = 1
  /\ seq.noop >= 1
  /\ BalanceOf(user_balances, "b1") > STARTING_BALANCE

\* ---------------------------------------------------------------- C2
\* a flow that will call resolve_bets on the key is alive: a session of the
\* subject, a start about to write one, a pending group or a flush holding it
Tracked(key) ==
  \/ \E i \in DOMAIN active_sessions :
       active_sessions[i].uid = key[2] /\ active_sessions[i].guild_id = key[1]
  \/ \E c \in starts : c.pc = "fetch" /\ c.uid = key[2] /\ c.guild = key[1]
  \/ \E gk \in DOMAIN pending_announcements :
       /\ gk[1] = key[1]
       /\ \E i \in DOMAIN pending_announcements[gk].players :
            pending_announcements[gk].players[i].user_id = key[2]
  \/ \E f \in flushes :
       /\ f.guild = key[1]
       /\ \E i \in f.idx..Len(f.stats) : f.stats[i].uid = key[2]

\* C2: every opened pool is eventually settled: a pool in the pool map always
\* has a flow alive that will settle it.
C2_EveryPoolSettles == \A key \in DOMAIN active_bets : Tracked(key)

\* ---------------------------------------------------------------- C3
\* the pool under the key is kept by the step, with the wagers it held
Kept(key) ==
  /\ key \in DOMAIN active_bets'
  /\ active_bets'[key].id = active_bets[key].id
  /\ \A side \in Sides : \A u \in DOMAIN active_bets[key].bets[side] :
       /\ u \in DOMAIN active_bets'[key].bets[side]
       /\ active_bets'[key].bets[side][u] = active_bets[key].bets[side][u]

\* C3: a pool holding wagers leaves the pool map only by being settled; a
\* further start of the same subject in the same guild keeps it.
C3_PoolDestroyedOnlyAtSettlement ==
  [][\A key \in DOMAIN active_bets :
       Stake(active_bets[key]) > 0 =>
         \/ Kept(key)
         \/ settled'[active_bets[key].id] = settled[active_bets[key].id] + 1]_vars

\* ---------------------------------------------------------------- C4
\* the step records a wager of user u in the pool under the key
Records(key, u, side) ==
  /\ key \in DOMAIN active_bets /\ key \in DOMAIN active_bets'
  /\ active_bets'[key].id = active_bets[key].id
  /\ u \notin DOMAIN active_bets[key].bets[side]
  /\ u \in DOMAIN active_bets'[key].bets[side]

\* C4: an accepted wager debits the bettor by exactly the stake it records:
\* the balance is known and covers the stake, it drops by the stake in the
\* step that records it, and every pool holds exactly what the ledger took.
C4_EscrowMatchesStake ==
  /\ [](\A key \in DOMAIN active_bets :
          active_bets[key].debited = Stake(active_bets[key]))
  /\ [][\A key \in DOMAIN active_bets, u \in Bettors, side \in Sides :
          Records(key, u, side) =>
            /\ active_bets'[key].bets[side][u] > 0
            /\ active_bets'[key].bets[side][u] <= BalanceOf(user_balances, u)
            /\ BalanceOf(user_balances', u)
                 = BalanceOf(user_balances, u) - active_bets'[key].bets[side][u]]_vars

\* both bettors have a wager in escrow, one on each side
C4_Witness ==
  \E key \in DOMAIN active_bets :
    /\ active_bets[key].bets.win # EmptyMap
    /\ active_bets[key].bets.loss # EmptyMap
    /\ active_bets[key].debited = 120

\* ---------------------------------------------------------------- C5
\* C5: no balance in the ledger is negative.
C5_NoNegativeBalance ==
  \A u \in DOMAIN user_balances : user_balances[u].balance >= 0

\* a negative /set was clamped to 0, and a wager of 60 has left another
\* account at 40
C5_Witness ==
  /\ ledgerOps = 1
  /\ \E u \in DOMAIN user_balances : user_balances[u].balance = 0
  /\ \E u \in DOMAIN user_balances : user_balances[u].balance = 40

\* ---------------------------------------------------------------- C6
\* what the bet command answers now
AnswerNow(u, key, a) == bet_answer(user_balances, active_bets, now, u, key, a)

Open(bet_data) == ~bet_data.closed /\ now <= bet_data.closes_at

\* C6: a bettor holds at most one wager in a pool, on one side.  A further
\* wager by a bettor who holds one is never accepted: it fails with
\* DuplicateWager when the pool is open, the amount positive and covered by
\* the balance, and with the error of the failing earlier check otherwise.
C6_OneWagerPerBettor ==
  \A key \in DOMAIN active_bets :
    /\ DOMAIN active_bets[key].bets.win \cap DOMAIN active_bets[key].bets.loss = {}
    /\ \A u \in Bettors, a \in BetAmounts :
         HasBet(active_bets[key], u) =>
           /\ AnswerNow(u, key, a)
                \in {"PoolClosed", "InvalidAmount", "InsufficientBalance", "DuplicateWager"}
           /\ AnswerNow(u, key, a) = "DuplicateWager"
                <=> /\ Open(active_bets[key])
                    /\ a > 0
                    /\ a <= BalanceOf(user_balances, u)

\* a bettor with a wager can afford another one, and is answered DuplicateWager
C6_Witness ==
  \E key \in DOMAIN active_bets, u \in Bettors :
    /\ HasBet(active_bets[key], u)
    /\ AnswerNow(u, key, 60) = "DuplicateWager"

\* C6 as stated, on an open pool and with a positive amount: every further
\* wager of a bettor who holds one fails with DuplicateWager.
C6_DuplicateAlwaysNamed ==
  \A key \in DOMAIN active_bets, u \in Bettors, a \in BetAmounts \ {0} :
    HasBet(active_bets[key], u) /\ Open(active_bets[key])
      => AnswerNow(u, key, a) = "DuplicateWager"

\* ---------------------------------------------------------------- C7
\* C7: the bet command answers PoolClosed whenever the pool's closed flag is
\* set or the clock is past closes_at, and no step records a wager in such a
\* pool.
C7_ClosedPoolRejects ==
  /\ [](\A key \in DOMAIN active_bets, u \in Bettors, a \in BetAmounts :
          ~Open(active_bets[key]) => AnswerNow(u, key, a) = "PoolClosed")
  /\ [][\A key \in DOMAIN active_bets :
          (~Open(active_bets[key]) /\ key \in DOMAIN active_bets'
             /\ active_bets'[key].id = active_bets[key].id)
            => active_bets'[key].bets = active_bets[key].bets]_vars

\* the close timer has set the flag while the clock is not past closes_at,
\* on a pool holding a wager
C7_Witness ==
  \E key \in DOMAIN active_bets :
    /\ active_bets[key].closed
    /\ now <= active_bets[key].closes_at
    /\ Stake(active_bets[key]) > 0

\* ---------------------------------------------------------------- C8
\* the step is a bet command that is rejected
RejectedBet(u, key, side, a) ==
  /\ AnswerNow(u, key, a) # "Placed"
  /\ bet(u, key[1], key[2], side, a)

\* C8: a rejected bet command changes no pool and no balance: the ledger can
\* only gain the account of the bettor, created at the starting balance by
\* the balance lookup.
C8_RejectedWagerReadsOnly ==
  [][\A u \in Bettors, side \in Sides, a \in BetAmounts :
       RejectedBet(u, <<"g1", "p1">>, side, a) =>
         /\ active_bets' = active_bets
         /\ \A v \in Bettors : BalanceOf(user_balances', v) = BalanceOf(user_balances, v)
         /\ user_balances' \in {user_balances, Put(user_balances, u, NewAccount)}]_vars

\* a rejected bet is all that has touched the ledger: an account exists at
\* the starting balance with no wager, no settlement and no ledger command
C8_Witness ==
  /\ ledgerOps = 0
  /\ \A id \in DOMAIN settled : settled[id] = 0
  /\ \A key \in DOMAIN active_bets : Stake(active_bets[key]) = 0
  /\ user_balances # EmptyMap

\* C8 as stated: a rejected bet command mutates nothing.
C8_RejectedWagerMutatesNothing ==
  [][\A u \in Bettors, side \in Sides, a \in BetAmounts :
       RejectedBet(u, <<"g1", "p1">>, side, a) =>
         /\ active_bets' = active_bets
         /\ user_balances' = user_balances]_vars

\* ---------------------------------------------------------------- C9
\* The aggregator under the event loop's scheduling: a task whose sleep is
\* over runs, a coroutine whose I/O has returned runs, and the clock moves on.
AggFairSpec ==
  /\ AggSpec
  /\ WF_vars(Tick)
  /\ WF_vars(\E t \in closers : close_betting(t))
  /\ WF_vars(\E t \in tasks, draw \in Draws : process_group_announcement(t, draw))

GroupIds == 1..MaxStarts

\* the timer armed for a pending group: asleep, and the only one on its key
Armed(gk) ==
  /\ \E t \in tasks : t.id = pending_announcements[gk].task /\ t.key = gk
  /\ \A t \in tasks : t.key = gk => t.id = pending_announcements[gk].task

\* C9: a group is flushed exactly once.  A flushed group is out of the
\* pending map, so that a later join on its key starts a group of its own; a
\* pending group has not been flushed, holds a member and has its timer
\* armed; and, the joins being finitely many, every group is flushed in the
\* end.
C9_GroupFlushedOnce ==
  /\ [](\A gid \in DOMAIN flushed : flushed[gid] <= 1)
  /\ [](\A gk \in DOMAIN pending_announcements :
          /\ flushed[pending_announcements[gk].gid] = 0
          /\ pending_announcements[gk].players # <<>>
          /\ Armed(gk))
  /\ [](\A gk1, gk2 \in DOMAIN pending_announcements :
          pending_announcements[gk1].gid = pending_announcements[gk2].gid => gk1 = gk2)
  /\ \A gid \in GroupIds :
       (gid \in DOMAIN flushed) ~> (gid \in DOMAIN flushed /\ flushed[gid] = 1)

\* a second group was started on a key whose first group had been flushed
C9_Witness ==
  /\ 2 \in DOMAIN flushed
  /\ flushed[1] = 1
  /\ \E gk \in DOMAIN pending_announcements : pending_announcements[gk].gid = 2

\* --------------------------------------------------------------- C10
\* how often handoff h occurs among the members of the pending groups
Waiting(h) ==
  LET Count(gk) ==
        Cardinality({i \in DOMAIN pending_announcements[gk].players :
                       pending_announcements[gk].players[i].h = h})
      RECURSIVE Sum(_)
      Sum(S) == IF S = {} THEN 0
                ELSE LET gk == CHOOSE x \in S : TRUE IN Count(gk) + Sum(S \ {gk})
  IN Sum(DOMAIN pending_announcements)

HandoffIds == 1..MaxStarts

\* C10: a session handed to queue_for_announcement is in exactly one place:
\* once in a pending group, or in one flushed batch; and it ends up in a
\* flushed batch.
C10_NoFinisherLostOrDuplicated ==
  /\ [](\A h \in DOMAIN delivered : delivered[h] + Waiting(h) = 1)
  /\ \A h \in HandoffIds :
       (h \in DOMAIN delivered) ~> (h \in DOMAIN delivered /\ delivered[h] = 1)

\* two sessions of the same match joined one group and were flushed together
C10_Witness ==
  /\ 2 \in DOMAIN delivered
  /\ delivered[1] = 1 /\ delivered[2] = 1
  /\ seq.group = 1

\* --------------------------------------------------------------- C11
\* the step takes the group under the key out of the pending map
Leaves(gk) ==
  \/ gk \notin DOMAIN pending_announcements'
  \/ pending_announcements'[gk].gid # pending_announcements[gk].gid

\* C11: the debounce.  A pending group has exactly one timer asleep, the one
\* armed by its last join and due one quiet period after it; no timer is left
\* for a key with no group; and a group leaves the pending map only by being
\* flushed, one quiet period after its last join.
C11_Debounce ==
  /\ [](\A gk \in DOMAIN pending_announcements :
          /\ Armed(gk)
          /\ \A t \in tasks :
               t.key = gk =>
                 t.deadline = pending_announcements[gk].joined + GROUP_WAIT_TIME)
  /\ [](\A t \in tasks : t.key \in DOMAIN pending_announcements)
  /\ [][\A gk \in DOMAIN pending_announcements :
          Leaves(gk) =>
            /\ now = pending_announcements[gk].joined + GROUP_WAIT_TIME
            /\ flushed[pending_announcements[gk].gid] = 0
            /\ flushed'[pending_announcements[gk].gid] = 1]_vars

\* three joins, the last at 12, made one group, flushed once, at 27
C11_Witness ==
  /\ seq.handoff = 3 /\ seq.group = 1
  /\ flushed[1] = 1
  /\ delivered[1] = 1 /\ delivered[2] = 1 /\ delivered[3] = 1
  /\ now = 12 + GROUP_WAIT_TIME

\* --------------------------------------------------------------- C12
\* C12: one run of match_poller asks the stats provider at most once,
\* whatever the number of sessions: a query is in flight only for one player,
\* who had a session when it was issued, it is issued by an idle poller with
\* a session in the registry, and answering it issues no other.
C12_OneQueryPerTick ==
  /\ [](Len(poller.asked) <= 1)
  /\ [](poller.pc = "waiting" <=> Len(poller.asked) = 1)
  /\ [][poller'.asked # poller.asked =>
          \/ /\ poller.pc = "idle" /\ poller'.pc = "waiting"
             /\ active_sessions # <<>>
             /\ poller'.asked = <<poller'.uid>>
             /\ poller'.uid \in SessionUids(active_sessions)
          \/ poller.pc = "waiting" /\ poller'.pc = "idle" /\ poller'.asked = <<>>]_vars

\* one query is in flight while two sessions are active
C12_Witness ==
  /\ poller.pc = "waiting"
  /\ Len(active_sessions) = 2
  /\ Len(poller.asked) = 1

\* --------------------------------------------------------------- C13
\* the session is of a registered player who played match m, and m is not
\* its baseline
Implicated(s, m) ==
  /\ s.uid \in user_data
  /\ s.uid \in Roster(m)
  /\ s.last_match_id # m

\* the members the step adds for player uid to the group under the key
NewJoins(uid, gk) ==
  IF gk \notin DOMAIN pending_announcements' THEN 0
  ELSE Cardinality({i \in DOMAIN pending_announcements'[gk].players :
                      /\ pending_announcements'[gk].players[i].user_id = uid
                      /\ pending_announcements'[gk].players[i].h > seq.handoff})

\* the step is the poller receiving the payload of an allow-listed match m
AllowedPayload(m) ==
  /\ poller.pc = "waiting"
  /\ m = LatestMatch(poller.uid)
  /\ MatchMode(m) \in ALLOWED_MODES
  /\ match_poller_resume("ok")

SkippedPayload(m) ==
  /\ poller.pc = "waiting"
  /\ m = LatestMatch(poller.uid)
  /\ MatchMode(m) \notin ALLOWED_MODES
  /\ match_poller_resume("ok")

\* C14: a payload whose mode is not allow-listed moves the baseline of every
\* implicated session to its match and changes nothing else: the sessions
\* stay, in their order, no group is queued, no timer armed, no pool settled
\* and no balance changed; and the same payload again implicates no session.
C14_SkippedModeAdvancesBaseline ==
  [][\A m \in MatchIds :
       SkippedPayload(m) =>
         /\ DOMAIN active_sessions' = DOMAIN active_sessions
         /\ \A i \in DOMAIN active_sessions :
              active_sessions'[i] =
                IF Implicated(active_sessions[i], m)
                THEN [active_sessions[i] EXCEPT !.last_match_id = m]
                ELSE active_sessions[i]
         /\ players_with_new_match(active_sessions', user_data, m) = <<>>
         /\ UNCHANGED <<pending_announcements, tasks, flushes, active_bets,
                        user_balances, settled, flushed, delivered>>]_vars

\* a deathmatch was skipped: p1's session is still there, its baseline moved
\* to the deathmatch, beside the untouched session of p2
C14_Witness ==
  /\ seq.skip = 1
  /\ Len(active_sessions) = 2
  /\ \E i \in DOMAIN active_sessions :
       active_sessions[i].uid = "p1" /\ active_sessions[i].last_match_id = 2

\* --------------------------------------------------------------- C15
\* C15: a run of match_poller whose query returns no data or raises changes
\* nothing but the round-robin cursor: issuing the query touches no session,
\* group, pool or balance, and the failed answer leaves them as they were,
\* with the poller idle again for a later run.
C15_FailedQueryChangesNothing ==
  /\ [][(poller.pc = "idle" /\ poller'.pc = "waiting") =>
          UNCHANGED <<active_sessions, pending_announcements, tasks, flushes,
                      active_bets, user_balances, settled, flushed, delivered>>]_vars
  /\ [][(\E api \in {"none", "raise"} : match_poller_resume(api)) =>
          /\ poller'.pc = "idle"
          /\ UNCHANGED <<active_sessions, pending_announcements, tasks, flushes,
                         active_bets, user_balances, settled, flushed, delivered,
                         poll_index>>]_vars

\* a run of the poller found nothing although a finished match is waiting:
\* the session is still there with its baseline, beside a pool holding a
\* wager
C15_Witness ==
  /\ poller.pc = "idle"
  /\ poll_index = 1
  /\ played = {1}
  /\ \E i \in DOMAIN active_sessions :
       active_sessions[i].uid = "p1" /\ active_sessions[i].last_match_id = None
  /\ \E key \in DOMAIN active_bets : Stake(active_bets[key]) > 0

\* --------------------------------------------------------------- C16
\* C16: start_tracking opens the session whatever the baseline lookup
\* answers: a start that has finished its lookup has written a session of
\* its player in its guild.
C16_StartToleratesFailedLookup ==
  [][\A c \in starts :
       (c.pc = "fetch" /\ c \notin starts') =>
         \E i \in DOMAIN active_sessions' :
           /\ active_sessions'[i].uid = c.uid
           /\ active_sessions'[i].guild_id = c.guild]_vars

\* --------------------------------------------------------------- C17
\* C17: in every reachable state no two active sessions have the same player
\* and guild (active_sessions is keyed by the player alone, so no two have the
\* same player), whatever start signals are in flight.
C17_OneSessionPerGuildPlayer ==
  \A i, j \in DOMAIN active_sessions :
    active_sessions[i].uid = active_sessions[j].uid => i = j

\* the startup scan's start for guild g1 and a presence update's start for
\* guild g2 were in flight together: the second wrote its session and opened
\* its pool, then the scan's start wrote the session again
C17_Witness ==
  /\ \E c \in starts : c.scan /\ c.guild = "g1" /\ c.pc = "send"
  /\ <<"g2", "p1">> \in DOMAIN active_bets
  /\ Len(active_sessions) = 1
  /\ active_sessions[1].uid = "p1"
  /\ active_sessions[1].guild_id = "g1"

\* --------------------------------------------------------------- C18
\* C18: whatever happens to the sends, a flush that ends has settled the pool
\* of every resolved member: none of their pools is left in active_bets.
C18_DeliveryFailureNeverBlocksSettlement ==
  [][\A f \in flushes :
       (f.id \notin {g.id : g \in flushes'}) =>
         \A i \in DOMAIN f.stats :
           <<f.guild, f.stats[i].uid>> \notin DOMAIN active_bets']_vars

\* --------------------------------------------------------------- C19
\* the pools a step takes out of the pool map
Removed == (DOMAIN active_bets) \ (DOMAIN active_bets')

\* the outcome of the tracked player of a pool in that player's latest match
OwnOutcome(key) ==
  IF HasWon(LatestMatch(key[2]), TeamOf(LatestMatch(key[2]), key[2]))
  THEN "win" ELSE "loss"

\* the removed pools in which bettor u staked on the tracked player's own
\* outcome
WonPools(u) ==
  {key \in Removed : u \in DOMAIN active_bets[key].bets[OwnOutcome(key)]}

\* the member of a pool is in a group leaving now and in its match payload,
\* or in the result of a flush under way
Resolved(key) ==
  \/ \E gk \in (DOMAIN pending_announcements) \ (DOMAIN pending_announcements') :
       /\ gk[1] = key[1]
       /\ in_payload(key[2], gk[2])
       /\ \E i \in DOMAIN pending_announcements[gk].players :
            pending_announcements[gk].players[i].user_id = key[2]
  \/ \E f \in flushes :
       f.guild = key[1] /\ \E i \in DOMAIN f.stats : f.stats[i].uid = key[2]

\* C19: a flush settles only pools of batch members found in the payload, and
\* it settles each with that member's own outcome: a bettor is credited exactly
\* when one of the pools settled in the step holds that bettor's stake on the
\* side of the member's own team result.
C19_FlushResolution ==
  [][/\ \A key \in Removed : Resolved(key)
     /\ \A u \in Bettors :
          IF WonPools(u) # {}
          THEN BalanceOf(user_balances', u) > BalanceOf(user_balances, u)
          ELSE Removed # {} =>
                 BalanceOf(user_balances', u) = BalanceOf(user_balances, u)]_vars

\* one batch of both players, on opposite teams, is flushed and both pools
\* are settled: b1 staked 60 on a loss of p2, who lost, and was paid; b2
\* staked 60 on a loss of p1, who won, and was not
C19_Witness ==
  /\ seq.group = 1
  /\ flushed = <<1>>
  /\ settled = <<1, 1>>
  /\ active_bets = EmptyMap
  /\ BalanceOf(user_balances, "b1") > STARTING_BALANCE
  /\ BalanceOf(user_balances, "b2") = STARTING_BALANCE - 60

\* --------------------------------------------------------------- C20
\* the pool a flush at its announcement is about to settle, and the outcome
\* it will hand to resolve_bets
Pending(f) == active_bets[<<f.guild, f.stats[1].uid>>]
Outcome(f) == IF f.stats[1].won THEN "win" ELSE "loss"

\* both sides hold a stake
General(bet_data) ==
  SumValues(bet_data.bets.win) > 0 /\ SumValues(bet_data.bets.loss) > 0

\* floor(D * stake / winningSideTotal), with D = T * 0.95 when T >= 100 and
\* D = T otherwise
ExactShare(total, stake, winning_total) ==
  IF total >= 100
  THEN (total * 95 * stake) \div (100 * winning_total)
  ELSE (total * stake) \div winning_total

\* C20: in the general case calculate_payouts pays every winning-side bettor
\* floor(D * stake / winningSideTotal), times the bettor's own draw and floored
\* again when the outcome is win, and pays every losing-side bettor 0 with
\* profit -stake.
C20_GeneralCasePayout ==
  \A f \in flushes :
    (/\ f.pc = "announce"
     /\ <<f.guild, f.stats[1].uid>> \in DOMAIN active_bets
     /\ General(Pending(f))) =>
      \A draw \in PayoutDraws :
        LET bets == Pending(f).bets
            won == Outcome(f)
            lost == losing_side(won)
            r == calculate_payouts(Pending(f), won, draw)
            share(u) == ExactShare(SumValues(bets.win) + SumValues(bets.loss),
                                   bets[won][u], SumValues(bets[won]))
        IN /\ \A u \in DOMAIN bets[won] :
                r[u].payout = IF won = "win" THEN (share(u) * draw[u]) \div 100
                              ELSE share(u)
           /\ \A u \in DOMAIN bets[lost] :
                r[u].payout = 0 /\ r[u].profit = 0 - bets[lost][u]

\* --------------------------------------------------------------- C21
\* the bettors of a pool
BettorsOf(bet_data) == (DOMAIN bet_data.bets.win) \cup (DOMAIN bet_data.bets.loss)

\* round(pct% of stake), halves up
RoundPct(stake, pct) == (stake * pct + 50) \div 100

\* the flush is at its announcement with its pool still there
AboutToSettle(f) ==
  f.pc = "announce" /\ <<f.guild, f.stats[1].uid>> \in DOMAIN active_bets

\* C21: when the pool has exactly one bettor, who staked on the outcome,
\* calculate_payouts pays stake + max(1, round(0.25 * stake)), the bonus
\* multiplied by the draw (and floored) when the outcome is win, and no
\* multiplier otherwise.
C21_SingleBettorPayout ==
  \A f \in flushes :
    (/\ AboutToSettle(f)
     /\ Cardinality(BettorsOf(Pending(f))) = 1
     /\ DOMAIN Pending(f).bets[Outcome(f)] # {}) =>
      \A draw \in PayoutDraws, u \in DOMAIN Pending(f).bets[Outcome(f)] :
        LET stake == Pending(f).bets[Outcome(f)][u]
            r == calculate_payouts(Pending(f), Outcome(f), draw)[u]
            b == Max(1, RoundPct(stake, 25))
        IN IF Outcome(f) = "win"
           THEN r.payout = stake + (b * draw[u]) \div 100 /\ r.multiplier = draw[u]
           ELSE r.payout = stake + b /\ r.profit = b /\ r.multiplier = 0

\* --------------------------------------------------------------- C22
\* C22: when nobody staked against the outcome and the pool has two bettors
\* or more, calculate_payouts pays every bettor stake + max(1, round(0.20 *
\* stake)), the bonus multiplied by the bettor's own draw (and floored) when
\* the outcome is win.
C22_UnopposedPayout ==
  \A f \in flushes :
    (/\ AboutToSettle(f)
     /\ Cardinality(BettorsOf(Pending(f))) >= 2
     /\ DOMAIN Pending(f).bets[losing_side(Outcome(f))] = {}) =>
      \A draw \in PayoutDraws, u \in DOMAIN Pending(f).bets[Outcome(f)] :
        LET stake == Pending(f).bets[Outcome(f)][u]
            r == calculate_payouts(Pending(f), Outcome(f), draw)[u]
            b == Max(1, RoundPct(stake, 20))
        IN IF Outcome(f) = "win"
           THEN r.payout = stake + (b * draw[u]) \div 100 /\ r.multiplier = draw[u]
           ELSE r.payout = stake + b /\ r.profit = b /\ r.multiplier = 0

\* --------------------------------------------------------------- C23
\* Scenario C: A = b1 staked 30 and B = b2 staked 70, both on win, nobody on
\* loss, and the tracked player won
ScenarioC(f) ==
  /\ AboutToSettle(f)
  /\ Outcome(f) = "win"
  /\ Pending(f).bets = [win |-> ("b1" :> 30) @@ ("b2" :> 70), loss |-> EmptyMap]

\* C23 as stated: in scenario C the multiplier applies to stake plus bonus,
\* A is paid floor((30+6)*m) and B floor((70+14)*m').
C23_ScenarioC_Stated ==
  \A f \in flushes :
    ScenarioC(f) =>
      \A draw \in PayoutDraws :
        LET r == calculate_payouts(Pending(f), "win", draw)
        IN /\ r["b1"].payout = (36 * draw["b1"]) \div 100
           /\ r["b2"].payout = (84 * draw["b2"]) \div 100

\* C23, amended: in scenario C the multiplier applies to the bonus alone: A
\* is paid 30 + floor(6*m) and B 70 + floor(14*m'), m and m' being their own
\* draws, and settling the pool credits them exactly that.
C23_ScenarioC ==
  /\ [](\A f \in flushes :
          ScenarioC(f) =>
            \A draw \in PayoutDraws :
              LET r == calculate_payouts(Pending(f), "win", draw)
              IN /\ r["b1"].payout = 30 + (6 * draw["b1"]) \div 100
                 /\ r["b2"].payout = 70 + (14 * draw["b2"]) \div 100)
  /\ [][\A f \in flushes :
          (ScenarioC(f) /\ active_bets' = EmptyMap) =>
            \E m1, m2 \in Multipliers :
              /\ BalanceOf(user_balances', "b1") = 30 + (6 * m1) \div 100
              /\ BalanceOf(user_balances', "b2") = 70 + (14 * m2) \div 100]_vars

\* scenario C is settled with the draws 1.20 and 1.05: A holds 30 + 7 and B
\* 70 + 14
C23_Witness ==
  /\ settled = <<1>>
  /\ active_bets = EmptyMap
  /\ DOMAIN user_balances = {"b1", "b2"}
  /\ user_balances["b1"].balance = 37
  /\ user_balances["b2"].balance = 84

\* --------------------------------------------------------------- C24
\* nobody staked on the outcome the flush will hand over (an empty pool
\* included)
NoWinnerStake(f) ==
  AboutToSettle(f) /\ SumValues(Pending(f).bets[Outcome(f)]) = 0

\* C24: with no stake on the winning side calculate_payouts gives every
\* bettor payout 0 and profit -stake (nobody, when the pool is empty), and the
\* settlement removes the pool and changes no balance.
C24_NoWinnerStake ==
  /\ [](\A f \in flushes :
          NoWinnerStake(f) =>
            \A draw \in PayoutDraws :
              LET r == calculate_payouts(Pending(f), Outcome(f), draw)
                  lost == Pending(f).bets[losing_side(Outcome(f))]
              IN /\ DOMAIN r = DOMAIN lost
                 /\ \A u \in DOMAIN r :
                      r[u].payout = 0 /\ r[u].profit = 0 - lost[u])
  /\ [][\A f \in flushes :
          (NoWinnerStake(f) /\ settled' # settled) =>
            /\ <<f.guild, f.stats[1].uid>> \notin DOMAIN active_bets'
            /\ settled' = <<1>>
            /\ user_balances' = user_balances]_vars

\* a pool of two wagers, both against the outcome, is settled: the pool is
\* gone and both bettors still hold nothing
C24_Witness ==
  /\ settled = <<1>>
  /\ active_bets = EmptyMap
  /\ DOMAIN user_balances = {"b1", "b2"}
  /\ \A u \in DOMAIN user_balances : user_balances[u].balance = 0

\* --------------------------------------------------------------- C25
\* what settling with the result r adds to the balance of u
Credit(r, u) == IF u \in DOMAIN r /\ r[u].payout > 0 THEN r[u].payout ELSE 0

\* C25: the step that settles a pool credits every bettor with a payout above
\* 0 the whole payout of one result of calculate_payouts and touches nobody
\* else, all in that one step; no other step of the flush changes a balance.
C25_LedgerEffect ==
  [][/\ settled' = settled => user_balances' = user_balances
     /\ \A f \in flushes :
          (AboutToSettle(f) /\ settled' # settled) =>
            \E draw \in PayoutDraws :
              LET r == calculate_payouts(Pending(f), Outcome(f), draw)
              IN /\ DOMAIN user_balances' = DOMAIN user_balances
                 /\ \A u \in DOMAIN user_balances :
                      /\ user_balances'[u].balance =
                           user_balances[u].balance + Credit(r, u)
                      /\ user_balances'[u].daily_claimed =
                           user_balances[u].daily_claimed]_vars

\* the pool win={b1:100}, loss={b2:100} of the player who won is settled
\* with the draw 1.20: b1 was credited 228, stake included, and b2 nothing
C25_Witness ==
  /\ settled = <<1>>
  /\ active_bets = EmptyMap
  /\ DOMAIN user_balances = {"b1", "b2"}
  /\ user_balances["b1"].balance = 228
  /\ user_balances["b2"].balance = 0

\* --------------------------------------------------------------- C26
\* the payouts of the winning side in the result r
WinnersPaid(r, winning_bets) ==
  SumValues([u \in DOMAIN winning_bets |-> r[u].payout])

\* the pool holds 100 coins or more, with a stake on both sides
TakenFrom(f) ==
  /\ AboutToSettle(f)
  /\ General(Pending(f))
  /\ Stake(Pending(f)) >= 100

\* C26 as stated: for either outcome the winning side is paid at most
\* floor(T * 0.95) plus the number of its bettors.
C26_WinnersBound_Stated ==
  \A f \in flushes :
    TakenFrom(f) =>
      \A draw \in PayoutDraws :
        WinnersPaid(calculate_payouts(Pending(f), Outcome(f), draw),
                    Pending(f).bets[Outcome(f)])
          <= (Stake(Pending(f)) * 95) \div 100
               + Cardinality(DOMAIN Pending(f).bets[Outcome(f)])

\* C26, amended: when the outcome is loss the winning side is paid at most
\* floor(T * 0.95) plus the number of its bettors; when it is win, where every
\* payout is multiplied by a draw of 1.20 at most, it is paid at most 1.20
\* times T less the house take.
C26_WinnersBound ==
  \A f \in flushes :
    TakenFrom(f) =>
      \A draw \in PayoutDraws :
        LET paid == WinnersPaid(calculate_payouts(Pending(f), Outcome(f), draw),
                                Pending(f).bets[Outcome(f)])
            T == Stake(Pending(f))
        IN IF Outcome(f) = "loss"
           THEN paid <= (T * 95) \div 100 + Cardinality(DOMAIN Pending(f).bets.loss)
           ELSE paid * 100 <= 120 * (T - (T * 5) \div 100)

\* the pool win={b1:100}, loss={b2:30, b3:80} of the player who lost is
\* settled: of T = 210 the two winners were paid 54 and 145, 199 in all
C26_Witness ==
  /\ settled = <<1>>
  /\ active_bets = EmptyMap
  /\ \E f \in flushes : f.pc = "result" /\ ~f.stats[1].won
  /\ DOMAIN user_balances = {"b1", "b2", "b3"}
  /\ user_balances["b1"].balance = 0
  /\ user_balances["b2"].balance = 54
  /\ user_balances["b3"].balance = 145

\* --------------------------------------------------------------- C27
\* D: the pool less the house take
Distributable(bet_data) == Stake(bet_data) - house_take(Stake(bet_data))

\* the general case with no multiplier: a stake on both sides, outcome loss
\* (the draws play no part in it)
Unmultiplied(f) ==
  AboutToSettle(f) /\ General(Pending(f)) /\ Outcome(f) = "loss"

NoDraw == [u \in FloorBettors |-> 100]

Unpaid(f) ==
  Distributable(Pending(f))
    - WinnersPaid(calculate_payouts(Pending(f), "loss", NoDraw), Pending(f).bets.loss)

PollerRuns == poller.pc = "idle" /\ (poll_index' # poll_index \/ poller' # poller)

\* the session at index (cursor mod current number of sessions)
Picked == active_sessions[(poll_index % Len(active_sessions)) + 1]

C29_BaselineRecordedOnce ==
  [][\A i \in DOMAIN active_sessions :
       active_sessions[i].uid \in SessionUids(active_sessions') =>
         \/ seq'.skip # seq.skip
         \/ /\ SessionOf(active_sessions', active_sessions[i].uid).last_match_id
                 = active_sessions[i].last_match_id
            /\ SessionOf(active_sessions', active_sessions[i].uid).started_at
                 = active_sessions[i].started_at]_vars

\* --------------------------------------------------------------- C30
\* the handler a step belongs to, told by what the step changes
Handler ==
  IF user_data' # user_data THEN "unregister"
  ELSE IF poller' # poller \/ poll_index' # poll_index THEN "match_poller"
  ELSE IF tasks' # tasks THEN "process_group_announcement"
  ELSE IF starts' # starts THEN "start_tracking"
  ELSE "other"

\* the step's handler touches the map inside the lock
UnderLock(map) ==
  \E s \in LockSites : s.handler = Handler /\ s.map = map /\ s.locked

\* C30: every step that changes the session map or the map of pending
\* announcements changes it while holding announcement_lock.
C30_LockDiscipline ==
  [][/\ active_sessions' # active_sessions => UnderLock("active_sessions")
     /\ pending_announcements' # pending_announcements =>
          UnderLock("pending_announcements")]_vars

\* --------------------------------------------------------------- C31
\* C31: a pool opened at t has closes_at = t + BETTING_WINDOW and is never
\* closed before its own closes_at, whatever pool its key held before.
C31_ClosedAtOwnDeadline ==
  /\ [](\A key \in DOMAIN active_bets :
          active_bets[key].closed => now >= active_bets[key].closes_at)
  /\ [][\A key \in DOMAIN active_bets' :
          (key \notin DOMAIN active_bets \/ active_bets'[key].id # active_bets[key].id) =>
            /\ active_bets'[key].closes_at = now + BETTING_WINDOW
            /\ ~active_bets'[key].closed]_vars

\* --------------------------------------------------------------- C32
\* C32: while a key holds a pool, closes_at does not change and closed does
\* not go back from true to false: betting that has closed stays closed until
\* the settlement removes the pool.
C32_CloseIsFinal ==
  [][\A key \in (DOMAIN active_bets) \cap (DOMAIN active_bets') :
       /\ active_bets'[key].closes_at = active_bets[key].closes_at
       /\ active_bets[key].closed => active_bets'[key].closed]_vars

\* --------------------------------------------------------------- C33
\* C33: every player with an active session has a registration record,
\* whatever the interleaving of unregister with a start_tracking that is
\* suspended on its baseline lookup.
C33_SessionsAreRegistered ==
  SessionUids(active_sessions) \subseteq user_data

\* --------------------------------------------------------------- C34
\* C34: for every pool about to be settled, both outcomes and every draw,
\* calculate_payouts gives each bettor on the winning side a payout of at
\* least the stake and a profit of at least 0.
C34_WinnerKeepsStake ==
  \A f \in flushes :
    AboutToSettle(f) =>
      \A draw \in PayoutDraws :
        LET r == calculate_payouts(Pending(f), Outcome(f), draw)
        IN \A u \in DOMAIN Pending(f).bets[winning_side(Outcome(f))] :
             r[u].payout >= r[u].bet /\ r[u].profit >= 0

\* --------------------------------------------------------------- C35
\* /register, from the answer of get_account on: the account was found and
\* the record is stored
register(p) ==
  /\ p \notin user_data
  /\ user_data' = user_data \cup {p}
  /\ UNCHANGED <<user_balances, active_bets, active_sessions, poll_index,
                 pending_announcements, announcement_channels, now, played, starts,
                 poller, tasks, closers, flushes, seq, settled, flushed, delivered,
                 ledgerOps>>

\* on_presence_update for a player with no start in flight: the start is
\* told from the others by its player, and no start is counted
on_presence_update_uncounted(p, g) ==
  /\ p \in user_data
  /\ p \notin {c.uid : c \in starts}
  /\ starts' = starts \cup {[id |-> 0, uid |-> p, guild |-> g, pc |-> "fetch",
                              scan |-> FALSE]}
  /\ UNCHANGED <<user_data, user_balances, active_bets, active_sessions, poll_index,
                 pending_announcements, announcement_channels, now, played, poller,
                 tasks, closers, flushes, seq, settled, flushed, delivered, ledgerOps>>

\* three players whose sessions come and go without end: p3 unregisters and
\* registers again, and every untracked player may start playing; no match
\* ends and no guild has a channel
ChurnNext ==
  \/ \E q \in PollPlayers \ SessionUids(active_sessions) :
       on_presence_update_uncounted(q, "g1")
  \/ \E c \in starts, api \in ApiOutcomes : start_tracking(c, api)
  \/ unregister("p3")
  \/ register("p3")
  \/ match_poller
  \/ \E api \in ApiOutcomes : match_poller_resume(api)

\* the poll loop runs again after every interval, and the lookup it waits for
\* returns
ChurnFairSpec ==
  /\ PollInit
  /\ [][ChurnNext]_vars
  /\ WF_vars(match_poller)
  /\ WF_vars(\E api \in ApiOutcomes : match_poller_resume(api))

\* the poller asks the stats provider for p's last match
Queried(p) == poller.pc = "waiting" /\ poller.uid = p

\* C35: under fair ticking every session of a registered player that remains
\* active is chosen by match_poller again and again, also while other
\* sessions are added and removed between the ticks.
C35_EverySessionPolled ==
  \A p \in PollPlayers :
    []<>(p \notin SessionUids(active_sessions) \/ p \notin user_data \/ Queried(p))

\* --------------------------------------------------------------- C36
\* the poller's lookup returns and takes the session s out of the registry
Completes(s) ==
  /\ poller.pc = "waiting"
  /\ poller'.pc = "idle"
  /\ s.uid \notin SessionUids(active_sessions')

\* C36: the payload that completes a session is never of a match older than
\* the session's baseline, whoever was polled for it; a pool is settled only
\* after such a completion.
C36_CompletedByNewerMatchOnly ==
  [][\A i \in DOMAIN active_sessions :
       (Completes(active_sessions[i]) /\ active_sessions[i].last_match_id # None) =>
         LatestMatch(poller.uid) >= active_sessions[i].last_match_id]_vars
====
